---------------------------- MODULE Spec2Model ----------------------------
(***************************************************************************)
(* Model of scripts/qgis_risk_assessment.py: the initialisation of the     *)
(* PyQGIS runtime (initialize_qgis), the placeholder workflow              *)
(* (run_risk_assessment) and the main execution block.                     *)
(*                                                                         *)
(* One action per statement; the label of a statement is "L<line>".        *)
(* Every call into the GIS library and every import either returns or      *)
(* raises; what it raises is an ImportError or some other Exception.       *)
(* print is taken to return normally.                                      *)
(***************************************************************************)
EXTENDS Integers, Sequences, FiniteSets

VARIABLES
    pc,            \* label of the next statement; "done" / "crashed" at the end
    sysPath,       \* sys.path, a sequence of paths
    sysPath0,      \* sys.path as it was when the script started (history)
    prefixPath,    \* prefix path held by the library (setPrefixPath)
    qgs,           \* local qgs of initialize_qgis: "None" or "app"
    runtime,       \* library runtime: "none", "started", "stopped"
    imported,      \* modules whose import has completed
    trace,         \* printed messages and library calls, in order
    qgs_instance,  \* module-level qgs_instance: "unset", "None" or "app"
    exc            \* last exception raised: NoExc or [kind, at]

vars == <<pc, sysPath, sysPath0, prefixPath, qgs, runtime, imported, trace,
          qgs_instance, exc>>

---------------------------------------------------------------------------
(* Bounds and inputs *)

\* longest sys.path the script is started with
MaxSysPath == 2

\* QGIS_INSTALL_PATH = '/usr', as a sequence of path components
QGIS_INSTALL_PATH == <<"usr">>

\* os.path.join(a, b) for a relative b: the components of a followed by b's
PathJoin(a, b) == a \o b

\* os.path.join(QGIS_INSTALL_PATH, 'apps/qgis/python/plugins')
PluginsPath == PathJoin(QGIS_INSTALL_PATH, <<"apps", "qgis", "python", "plugins">>)

\* entries sys.path may hold when the script starts
PathEntries == { <<"usr", "lib", "python3">>, PluginsPath }

RECURSIVE SeqsUpTo(_, _)
SeqsUpTo(S, n) ==
    IF n = 0 THEN { <<>> }
    ELSE LET shorter == SeqsUpTo(S, n - 1)
         IN  shorter \cup { Append(s, x) : s \in shorter, x \in S }

\* what a library call or an import does: return, or raise
Outcomes == {"ok", "ImportError", "Exception"}

NoExc == [kind |-> "none", at |-> "none"]

---------------------------------------------------------------------------
(* Messages (print) and library calls recorded in trace *)

MsgBanner       == "Running PyQGIS Script"                        \* line 70
MsgInitOk       == "QGIS environment initialized successfully"    \* line 46
MsgNotFound     == "PyQGIS libraries not found"                   \* line 49
MsgNotFoundHint == "cannot run without a local QGIS installation" \* line 50
MsgUnexpected   == "unexpected error during QGIS initialization"  \* line 53
MsgStart        == "Starting Automated Risk Assessment"           \* line 58
MsgStep1        == "Step 1: Loading spatial layers"               \* line 60
MsgStep2        == "Step 2: Standardizing layers by clipping"     \* line 61
MsgStep3        == "Step 3: Normalizing layers to 0-1 scale"      \* line 62
MsgStep4        == "Step 4: Applying Weighted Linear Combination" \* line 63
MsgComplete     == "Risk assessment workflow complete"            \* line 65
MsgFinalMap     == "Final risk map would be saved"                \* line 66
MsgClosed       == "QGIS environment closed"                      \* line 78
MsgHalted       == "Script execution halted"                      \* line 80

CallSetPrefixPath == "call QgsApplication.setPrefixPath"          \* line 36
CallConstructor   == "call QgsApplication()"                      \* line 37
CallInitQgis      == "call initQgis"                              \* line 38
CallProcessingInit == "call Processing.initialize"                \* line 44
CallExitQgis      == "call exitQgis"                              \* line 77

---------------------------------------------------------------------------
(* Helpers *)

\* number of occurrences of x in the sequence s
Count(s, x) == Cardinality({ i \in 1..Len(s) : s[i] = x })

\* index of the first occurrence of x in s, 0 when absent
FirstIndex(s, x) ==
    IF \E i \in 1..Len(s) : s[i] = x
    THEN CHOOSE i \in 1..Len(s) : s[i] = x /\ \A j \in 1..(i - 1) : s[j] # x
    ELSE 0

IsPrefix(s, t) == Len(s) <= Len(t) /\ \A i \in 1..Len(s) : s[i] = t[i]

\* the except clause chosen for an exception raised inside the try block:
\* `except ImportError` (line 48) first, then `except Exception` (line 52)
HandlerSwapped(kind) == "L53"
Handler(kind) == IF kind = "ImportError" THEN "L49" ELSE "L53"

\* truth value of `if qgs_instance:` (line 74)
TruthyAlways(v) == TRUE
Truthy(v) == v # "None"

\* a statement of the try block raises an exception of kind k
Raises(here, k) ==
    /\ exc' = [kind |-> k, at |-> here]
    /\ pc' = Handler(k)

\* print(msg) at label here, then go on at next
PrintStmt(here, msg, next) ==
    /\ pc = here
    /\ trace' = Append(trace, msg)
    /\ pc' = next
    /\ UNCHANGED <<sysPath, sysPath0, prefixPath, qgs, runtime, imported,
                   qgs_instance, exc>>

\* an import statement at label here
Import(here, module, next) ==
    /\ pc = here
    /\ \E o \in Outcomes :
         \/ /\ o = "ok"
            /\ imported' = imported \cup {module}
            /\ pc' = next
            /\ UNCHANGED exc
         \/ /\ o # "ok"
            /\ Raises(here, o)
            /\ UNCHANGED imported
    /\ UNCHANGED <<sysPath, sysPath0, prefixPath, qgs, runtime, trace,
                   qgs_instance>>

---------------------------------------------------------------------------
(* Initial state: the interpreter is about to run the main block *)

Init ==
    /\ pc = "L70"
    /\ sysPath \in SeqsUpTo(PathEntries, MaxSysPath)
    /\ sysPath0 = sysPath
    /\ prefixPath = <<>>
    /\ qgs = "None"
    /\ runtime = "none"
    /\ imported = {}
    /\ trace = <<>>
    /\ qgs_instance = "unset"
    /\ exc = NoExc

---------------------------------------------------------------------------
(* Main block, lines 69-80 *)

L70 == PrintStmt("L70", MsgBanner, "L72")

\* qgs_instance = initialize_qgis(): enter the function
L72 ==
    /\ pc = "L72"
    /\ pc' = "L33"
    /\ qgs' = "None"
    /\ UNCHANGED <<sysPath, sysPath0, prefixPath, runtime, imported, trace,
                   qgs_instance, exc>>

---------------------------------------------------------------------------
(* initialize_qgis, lines 30-54 *)

L33 == Import("L33", "qgis.core", "L34")

L34 == Import("L34", "qgis.analysis", "L36")

\* QgsApplication.setPrefixPath(QGIS_INSTALL_PATH, True)
L36 ==
    /\ pc = "L36"
    /\ trace' = Append(trace, CallSetPrefixPath)
    /\ \E o \in Outcomes :
         \/ /\ o = "ok"
            /\ prefixPath' = QGIS_INSTALL_PATH
            /\ pc' = "L37"
            /\ UNCHANGED exc
         \/ /\ o # "ok"
            /\ Raises("L36", o)
            /\ UNCHANGED prefixPath
    /\ UNCHANGED <<sysPath, sysPath0, qgs, runtime, imported, qgs_instance>>

\* qgs = QgsApplication([], False)
L37 ==
    /\ pc = "L37"
    /\ trace' = Append(trace, CallConstructor)
    /\ \E o \in Outcomes :
         \/ /\ o = "ok"
            /\ qgs' = "app"
            /\ pc' = "L38"
            /\ UNCHANGED exc
         \/ /\ o # "ok"
            /\ Raises("L37", o)
            /\ UNCHANGED qgs
    /\ UNCHANGED <<sysPath, sysPath0, prefixPath, runtime, imported,
                   qgs_instance>>

\* qgs.initQgis()
L38 ==
    /\ pc = "L38"
    /\ trace' = Append(trace, CallInitQgis)
    /\ \E o \in Outcomes :
         \/ /\ o = "ok"
            /\ runtime' = "started"
            /\ pc' = "L41"
            /\ UNCHANGED exc
         \/ /\ o # "ok"
            /\ Raises("L38", o)
            /\ UNCHANGED runtime
    /\ UNCHANGED <<sysPath, sysPath0, prefixPath, qgs, imported, qgs_instance>>

\* sys.path.append(os.path.join(QGIS_INSTALL_PATH, 'apps/qgis/python/plugins'))
L41 ==
    /\ pc = "L41"
    /\ sysPath' = Append(sysPath, PluginsPath)
    /\ pc' = "L42"
    /\ UNCHANGED <<sysPath0, prefixPath, qgs, runtime, imported, trace,
                   qgs_instance, exc>>

L42 == Import("L42", "processing", "L43")

L43 == Import("L43", "processing.core.Processing", "L44")

\* Processing.initialize()
L44 ==
    /\ pc = "L44"
    /\ trace' = Append(trace, CallProcessingInit)
    /\ \E o \in Outcomes :
         \/ /\ o = "ok"
            /\ pc' = "L46"
            /\ UNCHANGED exc
         \/ /\ o # "ok"
            /\ Raises("L44", o)
    /\ UNCHANGED <<sysPath, sysPath0, prefixPath, qgs, runtime, imported,
                   qgs_instance>>

L46 == PrintStmt("L46", MsgInitOk, "L47")

\* a return statement of initialize_qgis; the value is bound at line 72
Return(here, value) ==
    /\ pc = here
    /\ qgs_instance' = value
    /\ pc' = "L74"
    /\ UNCHANGED <<sysPath, sysPath0, prefixPath, qgs, runtime, imported,
                   trace, exc>>

\* return qgs
L47NoneReturned == Return("L47", "None")
L47 == Return("L47", qgs)

L49 == PrintStmt("L49", MsgNotFound, "L50")

L50 == PrintStmt("L50", MsgNotFoundHint, "L51")

\* return None
L51 == Return("L51", "None")

L53 == PrintStmt("L53", MsgUnexpected, "L54")

\* return None
L54Reraise ==
    /\ pc = "L54"
    /\ pc' = "crashed"
    /\ UNCHANGED <<sysPath, sysPath0, prefixPath, qgs, runtime, imported,
                   trace, qgs_instance, exc>>
L54 == Return("L54", "None")

---------------------------------------------------------------------------
(* Main block, continued *)

\* if qgs_instance: ... else: ...
L74SkipRun ==
    /\ pc = "L74"
    /\ pc' = IF Truthy(qgs_instance) THEN "L77" ELSE "L80"
    /\ UNCHANGED <<sysPath, sysPath0, prefixPath, qgs, runtime, imported,
                   trace, qgs_instance, exc>>
L74 ==
    /\ pc = "L74"
    /\ pc' = IF Truthy(qgs_instance) THEN "L75" ELSE "L80"
    /\ UNCHANGED <<sysPath, sysPath0, prefixPath, qgs, runtime, imported,
                   trace, qgs_instance, exc>>

\* run_risk_assessment(): enter the function
L75 ==
    /\ pc = "L75"
    /\ pc' = "L58"
    /\ UNCHANGED <<sysPath, sysPath0, prefixPath, qgs, runtime, imported,
                   trace, qgs_instance, exc>>

---------------------------------------------------------------------------
(* run_risk_assessment, lines 56-66 *)

L58 == PrintStmt("L58", MsgStart, "L60")

L60Loads ==
    /\ pc = "L60"
    /\ trace' = Append(trace, MsgStep1)
    /\ sysPath' = Append(sysPath, PluginsPath)
    /\ pc' = "L61"
    /\ UNCHANGED <<sysPath0, prefixPath, qgs, runtime, imported,
                   qgs_instance, exc>>
L60 == PrintStmt("L60", MsgStep1, "L61")

L61Pasted == PrintStmt("L61", MsgStep3, "L62")
L61 == PrintStmt("L61", MsgStep2, "L62")

L62 == PrintStmt("L62", MsgStep3, "L63")

L63 == PrintStmt("L63", MsgStep4, "L65")

L65 == PrintStmt("L65", MsgComplete, "L66")

\* last statement of run_risk_assessment: back to line 77
L66 == PrintStmt("L66", MsgFinalMap, "L77")

---------------------------------------------------------------------------
(* Main block, end *)

\* qgs_instance.exitQgis(): outside any try block, an exception ends the script
L77 ==
    /\ pc = "L77"
    /\ trace' = Append(trace, CallExitQgis)
    /\ \E o \in Outcomes :
         \/ /\ o = "ok"
            /\ runtime' = "stopped"
            /\ pc' = "L78"
            /\ UNCHANGED exc
         \/ /\ o # "ok"
            /\ exc' = [kind |-> o, at |-> "L77"]
            /\ pc' = "crashed"
            /\ UNCHANGED runtime
    /\ UNCHANGED <<sysPath, sysPath0, prefixPath, qgs, imported, qgs_instance>>

L78FallsThrough == PrintStmt("L78", MsgClosed, "L80")
L78 == PrintStmt("L78", MsgClosed, "done")

L80 == PrintStmt("L80", MsgHalted, "done")

---------------------------------------------------------------------------

Next ==
    \/ L70 \/ L72
    \/ L33 \/ L34 \/ L36 \/ L37 \/ L38 \/ L41 \/ L42 \/ L43 \/ L44
    \/ L46 \/ L47 \/ L49 \/ L50 \/ L51 \/ L53 \/ L54
    \/ L74 \/ L75
    \/ L58 \/ L60 \/ L61 \/ L62 \/ L63 \/ L65 \/ L66
    \/ L77 \/ L78 \/ L80

Spec == Init /\ [][Next]_vars

\* the interpreter always runs the next statement, and every call returns or raises
FairSpec == Spec /\ WF_vars(Next)

---------------------------------------------------------------------------
(* Vocabulary of the properties *)

\* initialize_qgis has returned and line 72 has bound its value
Returned == qgs_instance # "unset"

\* the script has ended: normally, or by an uncaught exception
Terminated == pc \in {"done", "crashed"}

\* the import statements of initialize_qgis (lines 33, 34, 42, 43)
ImportLabels == {"L33", "L34", "L42", "L43"}

\* every statement of the try block that may raise
InitLabels == ImportLabels \cup {"L36", "L37", "L38", "L44"}

\* the statements of run_risk_assessment
RunLabels == {"L58", "L60", "L61", "L62", "L63", "L65", "L66"}

WorkflowSeq ==
    <<MsgStart, MsgStep1, MsgStep2, MsgStep3, MsgStep4, MsgComplete, MsgFinalMap>>

IsWorkflowMsg(m) == \E i \in 1..Len(WorkflowSeq) : WorkflowSeq[i] = m

\* the messages of run_risk_assessment printed so far, in order
WorkflowPrinted == SelectSeq(trace, IsWorkflowMsg)

ErrorsPrinted == Count(trace, MsgNotFound) + Count(trace, MsgUnexpected)

\* an exception raised inside initialize_qgis is pending or was handled
InitFailed == exc # NoExc /\ exc.at \in InitLabels

---------------------------------------------------------------------------
(* C1 *)

\* C1: when an import inside initialize_qgis raises ImportError, control goes
\* to the ImportError handler, the 'libraries not found' message is printed
\* (and not the 'unexpected error' or the success message), None is returned,
\* and the exception does not end the script.
C1_ImportErrorGraceful ==
    (exc.kind = "ImportError" /\ exc.at \in ImportLabels) =>
        /\ pc \in {"L49", "L50", "L51", "L74", "L80", "done"}
        /\ Count(trace, MsgUnexpected) = 0
        /\ Count(trace, MsgInitOk) = 0
        /\ Returned => /\ qgs_instance = "None"
                       /\ Count(trace, MsgNotFound) = 1
                       /\ Count(trace, MsgNotFoundHint) = 1

\* the import of processing (line 42) raised ImportError and the call returned
C1_Witness ==
    /\ pc = "L74"
    /\ exc = [kind |-> "ImportError", at |-> "L42"]
    /\ qgs_instance = "None"

---------------------------------------------------------------------------
(* C2 *)

\* C2 (as claimed): whenever the script has ended and the runtime was started
\* (initQgis returned), exitQgis has been called.
C2_StartedImpliesStopped ==
    (Terminated /\ runtime # "none") => Count(trace, CallExitQgis) >= 1

---------------------------------------------------------------------------
(* C3 *)

\* C3: the workflow and exitQgis run only with a non-None application
\* instance; when initialize_qgis returned None the script ends having printed
\* no workflow message and no 'closed' message and without calling exitQgis,
\* and the only thing the main block prints after the call is 'halted'.
C3_WorkflowGated ==
    /\ (pc \in RunLabels \cup {"L75", "L77", "L78"}
          \/ WorkflowPrinted # <<>>
          \/ Count(trace, CallExitQgis) > 0
          \/ Count(trace, MsgClosed) > 0)
        => qgs_instance = "app"
    /\ (Terminated /\ qgs_instance = "None") =>
          /\ pc = "done"
          /\ Count(trace, MsgHalted) = 1
          /\ trace[Len(trace)] = MsgHalted
          /\ trace[Len(trace) - 1] \in {MsgNotFoundHint, MsgUnexpected}

\* the script ended after a failed initialisation
C3_Witness ==
    /\ pc = "done"
    /\ qgs_instance = "None"
    /\ Count(trace, MsgHalted) = 1

---------------------------------------------------------------------------
(* C4 *)

\* a step that appends one workflow message to the output and nothing else
RunStepOnlyPrints ==
    /\ UNCHANGED <<sysPath, prefixPath, qgs, runtime, imported, qgs_instance, exc>>
    /\ \E i \in 1..Len(WorkflowSeq) : trace' = Append(trace, WorkflowSeq[i])

\* a step taken inside run_risk_assessment only prints
RunStepFrame == (pc \in RunLabels) => RunStepOnlyPrints

\* C4: every step of run_risk_assessment only prints one of its placeholder
\* messages: sys.path, the application instance, the runtime, the prefix path
\* and the imported modules are what they were before the step.
C4_RunLeavesRuntimeUnchanged ==
    [][RunStepFrame]_vars

\* run_risk_assessment has run to its end with the runtime started
C4_Witness ==
    /\ pc = "L77"
    /\ runtime = "started"
    /\ Count(trace, MsgFinalMap) = 1

---------------------------------------------------------------------------
(* C5 *)

\* C5: the workflow messages printed so far are always an initial part of
\* banner, Step 1, Step 2, Step 3, Step 4, complete, final-map; once
\* run_risk_assessment has returned each of them was printed exactly once,
\* and 'complete' is never printed before the four step messages.
C5_WorkflowOrder ==
    /\ IsPrefix(WorkflowPrinted, WorkflowSeq)
    /\ Count(trace, MsgComplete) > 0 =>
          \A m \in {MsgStep1, MsgStep2, MsgStep3, MsgStep4} :
              /\ Count(trace, m) = 1
              /\ FirstIndex(trace, m) < FirstIndex(trace, MsgComplete)
    /\ (pc \in {"L77", "L78", "done", "crashed"} /\ qgs_instance = "app") =>
          /\ WorkflowPrinted = WorkflowSeq
          /\ \A i \in 1..Len(WorkflowSeq) : Count(trace, WorkflowSeq[i]) = 1

\* the workflow has just printed its completion message
C5_Witness ==
    /\ pc = "L66"
    /\ Count(trace, MsgComplete) = 1

---------------------------------------------------------------------------
(* C6 *)

\* the events of an execution in which initialisation succeeds
SuccessTrace ==
    <<MsgBanner, CallSetPrefixPath, CallConstructor, CallInitQgis,
      CallProcessingInit, MsgInitOk>>
    \o WorkflowSeq \o <<CallExitQgis, MsgClosed>>

\* C6 (as claimed): every execution in which initialisation succeeded ends
\* with exactly the events of SuccessTrace, 'closed' included.
C6_AllEventsOccur ==
    (Terminated /\ qgs_instance = "app") => trace = SuccessTrace

\* C6 (amended): with a non-None instance the events so far are always an
\* initial part of SuccessTrace, so exitQgis is called at most once and never
\* before the completion message; all of them have occurred when the script
\* ends normally; when exitQgis raises, the script ends right after that
\* call, without 'closed'.
C6_EventOrder ==
    /\ Count(trace, CallExitQgis) <= 1
    /\ qgs_instance = "app" =>
          /\ IsPrefix(trace, SuccessTrace)
          /\ Count(trace, CallExitQgis) = 1 =>
                /\ Count(trace, MsgComplete) = 1
                /\ FirstIndex(trace, MsgComplete) < FirstIndex(trace, CallExitQgis)
          /\ pc = "done" => trace = SuccessTrace
          /\ pc = "crashed" =>
                /\ exc.at = "L77"
                /\ trace = SubSeq(SuccessTrace, 1, Len(SuccessTrace) - 1)

\* a successful execution has ended normally
C6_Witness ==
    /\ pc = "done"
    /\ qgs_instance = "app"
    /\ runtime = "stopped"

---------------------------------------------------------------------------
(* C7 *)

\* C7: whatever is raised at whichever step of the try block, the script is
\* not ended by it; once initialize_qgis has returned, it has returned None
\* and printed exactly one error message, 'not found' for an ImportError and
\* 'unexpected error' for anything else, and no success message.
C7_NoExceptionEscapes ==
    InitFailed =>
        /\ pc # "crashed"
        /\ ErrorsPrinted <= 1
        /\ Returned =>
              /\ qgs_instance = "None"
              /\ ErrorsPrinted = 1
              /\ Count(trace, MsgInitOk) = 0
              /\ Count(trace, MsgNotFound) = 1 <=> exc.kind = "ImportError"
              /\ Count(trace, MsgUnexpected) = 1 <=> exc.kind # "ImportError"

\* initQgis raised something that is no ImportError, and the call returned
C7_Witness ==
    /\ pc = "L74"
    /\ exc = [kind |-> "Exception", at |-> "L38"]
    /\ Count(trace, MsgUnexpected) = 1

---------------------------------------------------------------------------
(* C8 *)

\* C8: the success message and an error message are never both printed; once
\* initialize_qgis has returned exactly one of them was printed, the success
\* message exactly when the value is not None, and a value that is not None
\* means that initQgis and then Processing.initialize were called and
\* returned, before the success message.
C8_SuccessXorError ==
    /\ ~(Count(trace, MsgInitOk) > 0 /\ ErrorsPrinted > 0)
    /\ Returned =>
          /\ Count(trace, MsgInitOk) + ErrorsPrinted = 1
          /\ Count(trace, MsgInitOk) = 1 <=> qgs_instance # "None"
          /\ qgs_instance # "None" =>
                /\ ~InitFailed
                /\ runtime # "none"
                /\ Count(trace, CallInitQgis) = 1
                /\ Count(trace, CallProcessingInit) = 1
                /\ FirstIndex(trace, CallInitQgis)
                     < FirstIndex(trace, CallProcessingInit)
                /\ FirstIndex(trace, CallProcessingInit)
                     < FirstIndex(trace, MsgInitOk)

\* initialize_qgis has just returned the application instance
C8_Witness ==
    /\ pc = "L74"
    /\ qgs_instance = "app"
    /\ Count(trace, MsgInitOk) = 1

---------------------------------------------------------------------------
(* C9 *)

FinalMessages == Count(trace, MsgClosed) + Count(trace, MsgHalted)

\* C9 (as claimed): when the script has ended, exactly one of 'closed' and
\* 'halted' has been printed.
C9_ExactlyOneFinalMessage ==
    Terminated => FinalMessages = 1

\* C9 (amended): every execution terminates; it never prints both final
\* messages; an execution that ends normally has printed exactly one of them,
\* 'closed' exactly when initialisation succeeded; the only executions that
\* print neither are those ended by an exception raised by exitQgis.
C9_TerminatesWithFinalMessage ==
    /\ <>Terminated
    /\ [](FinalMessages <= 1)
    /\ [](pc = "done" =>
            /\ FinalMessages = 1
            /\ Count(trace, MsgClosed) = 1 <=> qgs_instance = "app"
            /\ Count(trace, MsgHalted) = 1 <=> qgs_instance = "None")
    /\ [](pc = "crashed" =>
            /\ FinalMessages = 0
            /\ qgs_instance = "app"
            /\ exc.at = "L77")

\* exitQgis raised: the script ended with neither final message
C9_Witness ==
    /\ pc = "crashed"
    /\ exc.at = "L77"
    /\ FinalMessages = 0

---------------------------------------------------------------------------
(* C10 *)

\* C10 (as claimed): whenever initialize_qgis has returned None, sys.path is
\* what it was before the call and no runtime was started.
C10_FailedInitNoSideEffects ==
    qgs_instance = "None" => (sysPath = sysPath0 /\ runtime = "none")

=============================================================================
